---- MODULE Spec2Model ----
(***************************************************************************)
(* A model of the B-Tree of src/btree.go.                                  *)
(*                                                                         *)
(* Nodes live in a heap `nodes` (node id -> node record); a *node of the   *)
(* Go code is a node id and the nil pointer is NIL.  Items are integers    *)
(* and Item.Less is <.  Go slices are 0-based; a sequence s of the model   *)
(* holds the Go element s[i] at s[i+1], and every index an operator takes  *)
(* or returns is the Go (0-based) index.                                   *)
(*                                                                         *)
(* An index out of range or a nil dereference panics in Go: the operators  *)
(* return fault |-> TRUE with the heap as it was at the panic, and the     *)
(* program takes no further step.                                          *)
(***************************************************************************)
EXTENDS Integers, Sequences, FiniteSets, TLC

\* Bounds of the model: the largest order, and the largest key.  A tree of
\* the smallest order is four levels deep with 5 keys (its splits leave empty
\* leaves behind), a tree of order 3 needs 7 keys for three levels, so the
\* smallest order has a bound of its own on the keys.
MaxOrder == 3
MaxKey == 8
MaxKeyMinOrder == 5

\* The smallest order: the tests build trees of order 2 and up.
MinOrder == 2

NIL == 0

Orders == MinOrder..MaxOrder

\* The keys the calls on a tree of order m are made with.
Keys(m) == 1..(IF m = MinOrder THEN MaxKeyMinOrder ELSE MaxKey)

\* The largest key of the trees that are iterated over, but for the smallest
\* order.
IterMaxKey == 7

IterKeys(m) == 1..(IF m = MinOrder THEN MaxKeyMinOrder ELSE IterMaxKey)

\* The largest key of the calls whose history is kept, but for the smallest
\* order.
FillMaxKey == 7

FillKeys(m) == 1..(IF m = MinOrder THEN MaxKeyMinOrder ELSE FillMaxKey)

\* The largest key of the trees that Delete is followed through: a tree of
\* order 3 needs 9 keys for an internal node below the root to have a
\* sibling with an item to spare.  The other orders have the bounds of the
\* calls whose history is kept.
DelMaxKey == 9

DelKeys(m) == IF m = MinOrder + 1 THEN 1..DelMaxKey ELSE FillKeys(m)

\* The largest key of the items given to Bulkload.
BulkMaxKey == 9

\* The largest key of the trees given to Merge.
MergeMaxKey == 5

VARIABLES
    order,    \* BTree.order
    root,     \* BTree.root
    nodes,    \* the heap: node id -> [items, children, parent]
    fault,    \* TRUE once a call has panicked
    last,     \* the last public call: [op, key, present]
    iter,     \* the Iterator in use, with what its Next calls returned
    args,     \* the constructor the tree is made by, with its arguments
    merge,    \* the locals of a Merge call and where the call is
    hist,     \* history: the keys inserted and not deleted afterwards
    bulk,     \* the locals of a Bulkload call and where the call is
    reb,      \* the rebalance a Delete call is in: the node and minItems
    spl       \* the split an Insert call is in: the node and the item

vars == <<order, root, nodes, fault, last, iter, args, merge, hist, bulk, reb, spl>>

-----------------------------------------------------------------------------
\* Slices.

Range(s) == {s[i] : i \in 1..Len(s)}

\* s[:n]
Take(s, n) == SubSeq(s, 1, n)

\* s[i:]
SubFrom(s, i) == SubSeq(s, i + 1, Len(s))

\* s with x spliced in at index i
InsertAt(s, i, x) == Take(s, i) \o <<x>> \o SubFrom(s, i)

\* Item.Less of the test item: comparison of the keys.
Less(a, b) == a < b

\* sort.Search(n, f): binary search for the smallest index in [i, j) at
\* which f holds, here f(h) = it.Less(its[h]).
RECURSIVE SortSearch(_, _, _, _)
SortSearch(its, it, i, j) ==
    IF i < j
    THEN LET h == (i + j) \div 2
         IN  IF ~Less(it, its[h + 1])
             THEN SortSearch(its, it, h + 1, j)
             ELSE SortSearch(its, it, i, h)
    ELSE i

find(its, it) == SortSearch(its, it, 0, Len(its))

\* Mutant of match: the first item is never matched.
matchFromOne(its, item, index) ==
    /\ index > 0
    /\ index < Len(its)
    /\ ~(Less(item, its[index + 1]) \/ Less(its[index + 1], item))

\* Mutant of match: the items are not compared.
matchAny(its, item, index) == index >= 0 /\ index < Len(its)

\* Mutant of match: the items are compared one way only.
matchOneSided(its, item, index) ==
    /\ index >= 0
    /\ index < Len(its)
    /\ ~Less(item, its[index + 1])

\* items.match: the item at index is equal to item.
match(its, item, index) ==
    /\ index >= 0
    /\ index < Len(its)
    /\ ~(Less(item, its[index + 1]) \/ Less(its[index + 1], item))

\* items.insert: the items with `it` inserted at find(it).
insert(its, it) == InsertAt(its, find(its, it), it)

\* Mutant of truncate: one element too few is kept.
truncateShort(s, newLen) == Take(s, newLen - 1)

\* items.truncate / children.truncate
truncate(s, newLen) == Take(s, newLen)

\* items.delete / children.delete
delete(s, index) == Take(s, index) \o SubFrom(s, index + 1)

\* children.indexOf: linear scan, -1 when n is no child.
indexOf(chi, n) ==
    IF \E i \in 1..Len(chi) : chi[i] = n
    THEN (CHOOSE i \in 1..Len(chi) : chi[i] = n /\ \A j \in 1..(i - 1) : chi[j] # n) - 1
    ELSE -1

-----------------------------------------------------------------------------
\* The heap.

newNode(i, c, parent) == [items |-> i, children |-> c, parent |-> parent]

\* The address of a fresh allocation: the lowest id not in use.
NewId(ns) ==
    CHOOSE i \in 1..(Cardinality(DOMAIN ns) + 1) :
        /\ i \notin DOMAIN ns
        /\ \A j \in 1..(i - 1) : j \in DOMAIN ns

\* The heap with node id set to record r (allocating id if it is new).
Store(ns, id, r) == [x \in DOMAIN ns \cup {id} |-> IF x = id THEN r ELSE ns[x]]

\* Mutant of Reparent: the moved children keep their old parent.
ReparentNone(ns, cs, p) == ns

\* for _, c := range cs { c.parent = p }
Reparent(ns, cs, p) ==
    [x \in DOMAIN ns |-> IF x \in Range(cs) THEN [ns[x] EXCEPT !.parent = p] ELSE ns[x]]

RECURSIVE Reachable(_, _)
Reachable(ns, n) ==
    {n} \cup UNION {Reachable(ns, ns[n].children[i]) : i \in 1..Len(ns[n].children)}

\* The nodes of the subtree of n in preorder.
RECURSIVE Preorder(_, _)
RECURSIVE PreorderAll(_, _)
Preorder(ns, n) == <<n>> \o PreorderAll(ns, ns[n].children)
PreorderAll(ns, cs) ==
    IF Len(cs) = 0 THEN <<>>
    ELSE Preorder(ns, Head(cs)) \o PreorderAll(ns, Tail(cs))

\* Garbage collection: only the nodes reachable from the root stay.  A node's
\* address means nothing but its identity, so the nodes that stay are named
\* 1, 2, ... in preorder.
Collect(ns, rt) ==
    LET pre == Preorder(ns, rt)
        name(x) == IF x = NIL THEN NIL
                   ELSE IF \E i \in 1..Len(pre) : pre[i] = x
                   THEN CHOOSE i \in 1..Len(pre) : pre[i] = x
                   ELSE NIL
    IN  [i \in 1..Len(pre) |->
            [items |-> ns[pre[i]].items,
             children |-> [j \in 1..Len(ns[pre[i]].children) |-> name(ns[pre[i]].children[j])],
             parent |-> name(ns[pre[i]].parent)]]

Result(ns, rt, f) == [nodes |-> ns, root |-> rt, fault |-> f]

-----------------------------------------------------------------------------
\* search: the node holding item and the item's index, or (nil, -1).
RECURSIVE searchFrom(_, _, _)
searchFrom(ns, curr, item) ==
    LET i == find(ns[curr].items, item)
    IN  IF match(ns[curr].items, item, i - 1)
        THEN [node |-> curr, index |-> i - 1]
        ELSE IF i >= Len(ns[curr].children)
        THEN [node |-> NIL, index |-> -1]
        ELSE searchFrom(ns, ns[curr].children[i + 1], item)

search(ns, rt, item) == searchFrom(ns, rt, item)

\* Search: the item found (ok) or the error.
Search(ns, rt, item) ==
    LET r == search(ns, rt, item)
    IN  IF r.index = -1
        THEN [ok |-> FALSE, item |-> NIL]
        ELSE [ok |-> TRUE, item |-> ns[r.node].items[r.index + 1]]

\* max: the rightmost leaf of the subtree of n.
RECURSIVE max(_, _)
max(ns, n) ==
    IF Len(ns[n].children) = 0 THEN n
    ELSE max(ns, ns[n].children[Len(ns[n].children)])

\* min: the leftmost leaf of the subtree of n.
RECURSIVE min(_, _)
min(ns, n) ==
    IF Len(ns[n].children) = 0 THEN n
    ELSE min(ns, ns[n].children[1])

-----------------------------------------------------------------------------
\* Mutant of Overflows: the node splits one item too late.
OverflowsLate(its, m) == Len(its) > m

\* The node splits once it holds `order` items:
\* if len(node.items) < b.order { return }
Overflows(its, m) == ~(Len(its) < m)

\* Mutant of SplitNode: the children of an internal node stay behind.
SplitNodeKeepChildren(ns, node, rightNode) ==
    LET its == ns[node].items
        mid == Len(its) \div 2
        ns1 == Store(ns, rightNode, newNode(SubFrom(its, mid + 1), <<>>, ns[node].parent))
    IN  [ns1 EXCEPT ![node].items = truncate(@, mid)]

\* Mutant of SplitNode: the middle item goes to the new node as well.
SplitNodeKeepMiddle(ns, node, rightNode) ==
    LET its == ns[node].items
        chi == ns[node].children
        mid == Len(its) \div 2
        internal == Len(chi) > 0
        rightChildren == IF internal THEN SubFrom(chi, mid + 1) ELSE <<>>
        leftChildren == IF internal THEN truncate(chi, mid + 1) ELSE chi
        ns1 == Store(ns, rightNode,
                     newNode(SubFrom(its, mid), rightChildren, ns[node].parent))
        ns2 == [ns1 EXCEPT ![node].items = truncate(@, mid),
                           ![node].children = leftChildren]
    IN  Reparent(ns2, rightChildren, rightNode)

\* The split of an overflowing node: the items (and children) above the middle
\* item move to the new node rightNode, which gets the parent of node.
SplitNode(ns, node, rightNode) ==
    LET its == ns[node].items
        chi == ns[node].children
        mid == Len(its) \div 2
        internal == Len(chi) > 0
        rightChildren == IF internal THEN SubFrom(chi, mid + 1) ELSE <<>>
        leftChildren == IF internal THEN truncate(chi, mid + 1) ELSE chi
        ns1 == Store(ns, rightNode,
                     newNode(SubFrom(its, mid + 1), rightChildren, ns[node].parent))
        ns2 == [ns1 EXCEPT ![node].items = truncate(@, mid),
                           ![node].children = leftChildren]
    IN  Reparent(ns2, rightChildren, rightNode)

\* split: insert item into node, and split the node upwards while it holds
\* `order` items.
RECURSIVE split(_, _, _, _, _)
split(ns, rt, m, node, item) ==
    LET ns0 == [ns EXCEPT ![node].items = insert(@, item)]
        its == ns0[node].items
        parent == ns0[node].parent
    IN
    IF ~Overflows(its, m) THEN Result(ns0, rt, FALSE)
    ELSE
    LET mid == Len(its) \div 2
        midItem == its[mid + 1]
        rightNode == NewId(ns0)
    IN
    IF Len(ns0[node].children) > 0 /\ mid + 1 > Len(ns0[node].children)
    THEN Result(ns0, rt, TRUE)
    ELSE
    LET ns2 == SplitNode(ns0, node, rightNode)
    IN
    IF parent = NIL
    THEN LET newRoot == NewId(ns2)
             ns3 == Store(ns2, newRoot, newNode(<<midItem>>, <<node, rightNode>>, NIL))
             ns4 == [[ns3 EXCEPT ![node].parent = newRoot]
                          EXCEPT ![rightNode].parent = newRoot]
         IN  Result(ns4, newRoot, FALSE)
    ELSE LET i == find(ns2[parent].items, item)
         IN  IF i > Len(ns2[parent].children) THEN Result(ns2, rt, TRUE)
             ELSE split([ns2 EXCEPT ![parent].children = InsertAt(@, i + 1, rightNode)],
                        rt, m, parent, midItem)

\* What one invocation of split leaves: the heap, the root, whether it
\* panicked, and the node and item of the recursive invocation (NIL when it
\* returns).
Splitted(ns, rt, f, next, item) ==
    [nodes |-> ns, root |-> rt, fault |-> f, next |-> next, item |-> item]

\* One invocation of split(node, item), up to its return or its recursive
\* call b.split(node.parent, midItem).
SplitOnce(ns, rt, m, node, item) ==
    LET ns0 == [ns EXCEPT ![node].items = insert(@, item)]
        its == ns0[node].items
        parent == ns0[node].parent
    IN
    IF ~Overflows(its, m) THEN Splitted(ns0, rt, FALSE, NIL, NIL)
    ELSE
    LET mid == Len(its) \div 2
        midItem == its[mid + 1]
        rightNode == NewId(ns0)
    IN
    IF Len(ns0[node].children) > 0 /\ mid + 1 > Len(ns0[node].children)
    THEN Splitted(ns0, rt, TRUE, NIL, NIL)
    ELSE
    LET ns2 == SplitNode(ns0, node, rightNode)
    IN
    IF parent = NIL
    THEN LET newRoot == NewId(ns2)
             ns3 == Store(ns2, newRoot, newNode(<<midItem>>, <<node, rightNode>>, NIL))
             ns4 == [[ns3 EXCEPT ![node].parent = newRoot]
                          EXCEPT ![rightNode].parent = newRoot]
         IN  Splitted(ns4, newRoot, FALSE, NIL, NIL)
    ELSE LET i == find(ns2[parent].items, item)
         IN  IF i > Len(ns2[parent].children) THEN Splitted(ns2, rt, TRUE, NIL, NIL)
             ELSE Splitted([ns2 EXCEPT ![parent].children = InsertAt(@, i + 1, rightNode)],
                           rt, FALSE, parent, midItem)

\* The descent of Insert: the leaf to insert item into, or NIL when an equal
\* item is met on the way.
RECURSIVE InsertLeaf(_, _, _)
InsertLeaf(ns, curr, item) ==
    LET i == find(ns[curr].items, item)
    IN  IF match(ns[curr].items, item, i - 1) THEN NIL
        ELSE IF i >= Len(ns[curr].children) THEN curr
        ELSE InsertLeaf(ns, ns[curr].children[i + 1], item)

BTreeInsert(ns, rt, m, item) ==
    LET curr == InsertLeaf(ns, rt, item)
    IN  IF curr = NIL THEN Result(ns, rt, FALSE)
        ELSE split(ns, rt, m, curr, item)

-----------------------------------------------------------------------------
\* Mutant of nthChildOfParent: the binary search is made for a node without
\* items as well, and gives index 0.
nthChildOfParentNoScan(ns, n) ==
    IF ns[n].parent = NIL THEN -1
    ELSE IF Len(ns[n].items) = 0 THEN 0
    ELSE find(ns[ns[n].parent].items, ns[n].items[1])

\* nthChildOfParent: the index of n in n.parent.children, by linear scan when
\* n has no items and by binary search of n.items[0] otherwise.
nthChildOfParent(ns, n) ==
    IF ns[n].parent = NIL THEN -1
    ELSE IF Len(ns[n].items) = 0 THEN indexOf(ns[ns[n].parent].children, n)
    ELSE find(ns[ns[n].parent].items, ns[n].items[1])

\* Mutant of MinItems: the half of the order is rounded down.
MinItemsFloor(m) == (m \div 2) - 1

\* The minimum number of items of a non-root node above the leaves:
\* int(math.Ceil(float64(b.order)/2.0)) - 1
MinItems(m) == ((m + 1) \div 2) - 1

\* Mutant of RotateLeft: the separator in the parent is not replaced.
RotateLeftKeepSep(ns, n, sibling, rSepPos) ==
    LET p == ns[n].parent
        ns1 == [ns EXCEPT ![n].items = Append(@, ns[p].items[rSepPos + 1])]
        ns3 == [ns1 EXCEPT ![sibling].items = delete(@, 0)]
    IN  IF Len(ns3[sibling].children) > 0
        THEN LET c == ns3[sibling].children[1]
                 ns4 == [ns3 EXCEPT ![c].parent = n]
                 ns5 == [ns4 EXCEPT ![n].children = Append(@, c)]
             IN  [ns5 EXCEPT ![sibling].children = delete(@, 0)]
        ELSE ns3

\* Left rotation: the right separator comes down to n, the first item (and
\* child) of the right sibling goes up (over).
RotateLeft(ns, n, sibling, rSepPos) ==
    LET p == ns[n].parent
        ns1 == [ns EXCEPT ![n].items = Append(@, ns[p].items[rSepPos + 1])]
        ns2 == [ns1 EXCEPT ![p].items[rSepPos + 1] = ns1[sibling].items[1]]
        ns3 == [ns2 EXCEPT ![sibling].items = delete(@, 0)]
    IN  IF Len(ns3[sibling].children) > 0
        THEN LET c == ns3[sibling].children[1]
                 ns4 == [ns3 EXCEPT ![c].parent = n]
                 ns5 == [ns4 EXCEPT ![n].children = Append(@, c)]
             IN  [ns5 EXCEPT ![sibling].children = delete(@, 0)]
        ELSE ns3

\* Mutant of RotateRight: the left separator does not come down to n.
RotateRightKeepEmpty(ns, n, sibling, lSepPos) ==
    LET p == ns[n].parent
        ns2 == [ns EXCEPT ![p].items[lSepPos + 1] =
                              ns[sibling].items[Len(ns[sibling].items)]]
        ns3 == [ns2 EXCEPT ![sibling].items = delete(@, Len(@) - 1)]
    IN  IF Len(ns3[sibling].children) > 0
        THEN LET lastChild == ns3[sibling].children[Len(ns3[sibling].children)]
                 ns4 == [ns3 EXCEPT ![lastChild].parent = n]
                 ns5 == [ns4 EXCEPT ![n].children = <<lastChild>> \o @]
             IN  [ns5 EXCEPT ![sibling].children = delete(@, Len(@) - 1)]
        ELSE ns3

\* Right rotation: the left separator comes down to n, the last item (and
\* child) of the left sibling goes up (over).
RotateRight(ns, n, sibling, lSepPos) ==
    LET p == ns[n].parent
        ns1 == [ns EXCEPT ![n].items = <<ns[p].items[lSepPos + 1]>> \o @]
        ns2 == [ns1 EXCEPT ![p].items[lSepPos + 1] =
                               ns1[sibling].items[Len(ns1[sibling].items)]]
        ns3 == [ns2 EXCEPT ![sibling].items = delete(@, Len(@) - 1)]
    IN  IF Len(ns3[sibling].children) > 0
        THEN LET lastChild == ns3[sibling].children[Len(ns3[sibling].children)]
                 ns4 == [ns3 EXCEPT ![lastChild].parent = n]
                 ns5 == [ns4 EXCEPT ![n].children = <<lastChild>> \o @]
             IN  [ns5 EXCEPT ![sibling].children = delete(@, Len(@) - 1)]
        ELSE ns3

\* Mutant of MergeNodes: the parent keeps its link to right.
MergeNodesKeepLink(ns, p, left, right, sepPos, rightPos) ==
    LET ns1 == [ns EXCEPT ![left].items = Append(@, ns[p].items[sepPos + 1])]
        ns2 == [ns1 EXCEPT ![left].items = @ \o ns1[right].items]
        ns3 == Reparent(ns2, ns2[right].children, left)
        ns4 == [ns3 EXCEPT ![left].children = @ \o ns3[right].children]
    IN  [ns4 EXCEPT ![p].items = delete(@, sepPos)]

\* Merge left, the separator at sepPos and right, in that order, into left;
\* the parent p loses the separator and the link to right.
MergeNodes(ns, p, left, right, sepPos, rightPos) ==
    LET ns1 == [ns EXCEPT ![left].items = Append(@, ns[p].items[sepPos + 1])]
        ns2 == [ns1 EXCEPT ![left].items = @ \o ns1[right].items]
        ns3 == Reparent(ns2, ns2[right].children, left)
        ns4 == [ns3 EXCEPT ![left].children = @ \o ns3[right].children]
        ns5 == [ns4 EXCEPT ![p].items = delete(@, sepPos)]
    IN  [ns5 EXCEPT ![p].children = delete(@, rightPos)]

\* Mutant of RootEmptied: the children are counted instead of the items.
RootEmptiedByChildren(ns, p) == ns[p].parent = NIL /\ Len(ns[p].children) = 0

\* The merge has taken the last item of the root:
\* n.parent.parent == nil && len(n.parent.items) == 0
RootEmptied(ns, p) == ns[p].parent = NIL /\ Len(ns[p].items) = 0

\* rebalance: rotate an item into n from a sibling that can spare one, or
\* merge n with a sibling and go on with the parent.
RECURSIVE rebalance(_, _, _, _, _)
rebalance(ns, rt, m, n, minItems) ==
    IF ns[n].parent = NIL THEN Result(ns, rt, FALSE)
    ELSE
    LET p == ns[n].parent
        pch == ns[p].children
        pit == ns[p].items
        ptrIndex == nthChildOfParent(ns, n)
        lSepPos == ptrIndex - 1
        rSepPos == ptrIndex
    IN
    IF ptrIndex > 0 /\ ptrIndex - 1 >= Len(pch) THEN Result(ns, rt, TRUE)
    ELSE
    LET leftSib == IF ptrIndex > 0 THEN pch[ptrIndex] ELSE NIL
        rightSib == IF ptrIndex < Len(pch) - 1 THEN pch[ptrIndex + 2] ELSE NIL
    IN
    IF rightSib # NIL /\ Len(ns[rightSib].items) > minItems
    THEN IF rSepPos < 0 \/ rSepPos >= Len(pit) THEN Result(ns, rt, TRUE)
         ELSE Result(RotateLeft(ns, n, rightSib, rSepPos), rt, FALSE)
    ELSE IF leftSib # NIL /\ Len(ns[leftSib].items) > minItems
    THEN IF lSepPos >= Len(pit) THEN Result(ns, rt, TRUE)
         ELSE Result(RotateRight(ns, n, leftSib, lSepPos), rt, FALSE)
    ELSE
    LET left == IF leftSib # NIL THEN leftSib ELSE n
        right == IF leftSib # NIL THEN n ELSE rightSib
        sepPos == IF leftSib # NIL THEN lSepPos ELSE rSepPos
        rightPos == IF leftSib # NIL THEN ptrIndex ELSE ptrIndex + 1
    IN
    IF sepPos < 0 \/ sepPos >= Len(pit) \/ right = NIL \/ rightPos >= Len(pch)
    THEN Result(ns, rt, TRUE)
    ELSE
    LET ns1 == MergeNodes(ns, p, left, right, sepPos, rightPos)
        np == ns1[n].parent
    IN
    IF RootEmptied(ns1, np)
    THEN Result([[ns1 EXCEPT ![right].parent = left] EXCEPT ![left].parent = NIL],
                left, FALSE)
    ELSE IF Len(ns1[np].items) < MinItems(m)
    THEN rebalance(ns1, rt, m, np, MinItems(m))
    ELSE Result(ns1, rt, FALSE)

\* Delete: remove the item from its leaf, or replace it in its internal node
\* by the last item of the rightmost leaf to its left; rebalance around that
\* leaf when it is left empty.
BTreeDelete(ns, rt, m, item) ==
    LET r == search(ns, rt, item)
        del == r.node
        i == r.index
    IN
    IF i = -1 THEN Result(ns, rt, FALSE)
    ELSE IF Len(ns[del].children) # 0 /\ i >= Len(ns[del].children)
    THEN Result(ns, rt, TRUE)
    ELSE
    LET maxNode == max(ns, ns[del].children[i + 1])
        ns1 == IF Len(ns[del].children) = 0
               THEN [ns EXCEPT ![del].items = delete(@, i)]
               ELSE IF Len(ns[maxNode].items) > 0
               THEN [[ns EXCEPT ![del].items[i + 1] =
                                    ns[maxNode].items[Len(ns[maxNode].items)]]
                         EXCEPT ![maxNode].items = delete(@, Len(@) - 1)]
               ELSE ns
        affected == IF Len(ns[del].children) = 0 THEN del ELSE maxNode
    IN
    IF Len(ns1[affected].items) = 0 /\ ns1[affected].parent # NIL
    THEN rebalance(ns1, rt, m, affected, 1)
    ELSE Result(ns1, rt, FALSE)

\* Mutant of DeleteItem: the internal node gets the first item of the leaf,
\* and the leaf loses it.
DeleteItemFirst(ns, del, i) ==
    IF Len(ns[del].children) = 0
    THEN [nodes |-> [ns EXCEPT ![del].items = delete(@, i)], affected |-> del]
    ELSE LET maxNode == max(ns, ns[del].children[i + 1])
         IN  IF Len(ns[maxNode].items) > 0
             THEN [nodes |-> [[ns EXCEPT ![del].items[i + 1] = ns[maxNode].items[1]]
                                  EXCEPT ![maxNode].items = delete(@, 0)],
                   affected |-> maxNode]
             ELSE [nodes |-> ns, affected |-> maxNode]

\* Step 1 of Delete, the item found at index i of del: it is deleted from a
\* leaf, or replaced in an internal node by the last item of the rightmost
\* leaf to its left, which loses that item; affected is the leaf changed.
DeleteItem(ns, del, i) ==
    IF Len(ns[del].children) = 0
    THEN [nodes |-> [ns EXCEPT ![del].items = delete(@, i)], affected |-> del]
    ELSE LET maxNode == max(ns, ns[del].children[i + 1])
         IN  IF Len(ns[maxNode].items) > 0
             THEN [nodes |-> [[ns EXCEPT ![del].items[i + 1] =
                                             ns[maxNode].items[Len(ns[maxNode].items)]]
                                  EXCEPT ![maxNode].items = delete(@, Len(@) - 1)],
                   affected |-> maxNode]
             ELSE [nodes |-> ns, affected |-> maxNode]

\* Step 2 of Delete: the rebalance around the leaf that step 1 changed.
DeleteRebalance(st, rt, m) ==
    IF Len(st.nodes[st.affected].items) = 0 /\ st.nodes[st.affected].parent # NIL
    THEN rebalance(st.nodes, rt, m, st.affected, 1)
    ELSE Result(st.nodes, rt, FALSE)

\* Mutant of CanSpare: a sibling holding minItems items gives one away.
CanSpareLast(ns, sibling, minItems) ==
    sibling # NIL /\ Len(ns[sibling].items) >= minItems

\* The sibling is there and has an item to spare:
\* sibling != nil && len(sibling.items) > minItems
CanSpare(ns, sibling, minItems) ==
    sibling # NIL /\ Len(ns[sibling].items) > minItems

\* What one invocation of rebalance leaves: the heap, the root, whether it
\* panicked, and the node of the recursive invocation (NIL when it returns).
Rebalanced(ns, rt, f, next) == [nodes |-> ns, root |-> rt, fault |-> f, next |-> next]

\* One invocation of rebalance(n, minItems), up to its return or its
\* recursive call b.rebalance(n.parent, minItems).
RebalanceOnce(ns, rt, m, n, minItems) ==
    IF ns[n].parent = NIL THEN Rebalanced(ns, rt, FALSE, NIL)
    ELSE
    LET p == ns[n].parent
        pch == ns[p].children
        pit == ns[p].items
        ptrIndex == nthChildOfParent(ns, n)
        lSepPos == ptrIndex - 1
        rSepPos == ptrIndex
    IN
    IF ptrIndex > 0 /\ ptrIndex - 1 >= Len(pch) THEN Rebalanced(ns, rt, TRUE, NIL)
    ELSE
    LET leftSib == IF ptrIndex > 0 THEN pch[ptrIndex] ELSE NIL
        rightSib == IF ptrIndex < Len(pch) - 1 THEN pch[ptrIndex + 2] ELSE NIL
    IN
    IF CanSpare(ns, rightSib, minItems)
    THEN IF rSepPos < 0 \/ rSepPos >= Len(pit) THEN Rebalanced(ns, rt, TRUE, NIL)
         ELSE Rebalanced(RotateLeft(ns, n, rightSib, rSepPos), rt, FALSE, NIL)
    ELSE IF CanSpare(ns, leftSib, minItems)
    THEN IF lSepPos >= Len(pit) THEN Rebalanced(ns, rt, TRUE, NIL)
         ELSE Rebalanced(RotateRight(ns, n, leftSib, lSepPos), rt, FALSE, NIL)
    ELSE
    LET left == IF leftSib # NIL THEN leftSib ELSE n
        right == IF leftSib # NIL THEN n ELSE rightSib
        sepPos == IF leftSib # NIL THEN lSepPos ELSE rSepPos
        rightPos == IF leftSib # NIL THEN ptrIndex ELSE ptrIndex + 1
    IN
    IF sepPos < 0 \/ sepPos >= Len(pit) \/ right = NIL \/ rightPos >= Len(pch)
    THEN Rebalanced(ns, rt, TRUE, NIL)
    ELSE
    LET ns1 == MergeNodes(ns, p, left, right, sepPos, rightPos)
        np == ns1[n].parent
    IN
    IF RootEmptied(ns1, np)
    THEN Rebalanced([[ns1 EXCEPT ![right].parent = left] EXCEPT ![left].parent = NIL],
                    left, FALSE, NIL)
    ELSE IF Len(ns1[np].items) < MinItems(m)
    THEN Rebalanced(ns1, rt, FALSE, np)
    ELSE Rebalanced(ns1, rt, FALSE, NIL)

-----------------------------------------------------------------------------
\* The constructors.

\* A tree with its order.
BTree(m, ns, rt) == [order |-> m, nodes |-> ns, root |-> rt]

\* New(order): an empty leaf as the root.
New(m) == BTree(m, [x \in {1} |-> newNode(<<>>, <<>>, NIL)], 1)

\* Mutant of BulkloadFrom: every item goes to the first leaf.
RECURSIVE BulkloadKeepMax(_, _, _, _, _, _)
BulkloadKeepMax(ns, rt, m, maxLeaf, its, i) ==
    IF ~(i < Len(its)) THEN Result(ns, rt, FALSE)
    ELSE
    LET r == split(ns, rt, m, maxLeaf, its[i + 1])
    IN  IF r.fault THEN r
        ELSE BulkloadKeepMax(r.nodes, r.root, m, maxLeaf, its, i + 1)

\* The loop of Bulkload from items[i] on (i is the Go index); maxLeaf is the
\* node the next item goes to.
RECURSIVE BulkloadFrom(_, _, _, _, _, _)
BulkloadFrom(ns, rt, m, maxLeaf, its, i) ==
    IF ~(i < Len(its)) THEN Result(ns, rt, FALSE)
    ELSE
    LET r == split(ns, rt, m, maxLeaf, its[i + 1])
        parent == r.nodes[maxLeaf].parent
    IN
    IF r.fault THEN r
    ELSE BulkloadFrom(r.nodes, r.root, m,
                      IF parent # NIL /\ Len(r.nodes[parent].children) > 0
                      THEN r.nodes[parent].children[Len(r.nodes[parent].children)]
                      ELSE maxLeaf,
                      its, i + 1)

\* One iteration of the loop of Bulkload: the tree and the node the next
\* item goes to.
BulkloadIteration(ns, rt, m, maxLeaf, item) ==
    LET r == split(ns, rt, m, maxLeaf, item)
        parent == r.nodes[maxLeaf].parent
    IN  [nodes |-> r.nodes, root |-> r.root, fault |-> r.fault,
         max |-> IF ~r.fault /\ parent # NIL /\ Len(r.nodes[parent].children) > 0
                 THEN r.nodes[parent].children[Len(r.nodes[parent].children)]
                 ELSE maxLeaf]

Bulkload(m, its) == BulkloadFrom(New(m).nodes, New(m).root, m, New(m).root, its, 0)

\* The arguments of the constructors: New takes none, Bulkload takes items,
\* Merge takes the trees a and b.
Args(fn, its, a, b) == [fn |-> fn, items |-> its, a |-> a, b |-> b]

NewArgs == Args("New", <<>>, New(MinOrder), New(MinOrder))

\* New(m) followed by Insert of each item of its from its[i] on (i is the
\* Go index), as TestInsert builds a tree.
RECURSIVE InsertFrom(_, _, _, _, _)
InsertFrom(ns, rt, m, its, i) ==
    IF ~(i < Len(its)) THEN Result(ns, rt, FALSE)
    ELSE LET r == BTreeInsert(ns, rt, m, its[i + 1])
         IN  IF r.fault THEN r
             ELSE InsertFrom(r.nodes, r.root, m, its, i + 1)

InsertAll(m, its) == InsertFrom(New(m).nodes, New(m).root, m, its, 0)

-----------------------------------------------------------------------------
\* The Iterator.

\* Direction values for Iterator
forward == 1
reverse == -1

\* No Iterator is in use.
NoIter ==
    [dir |-> 0, curr |-> NIL, itemIndex |-> 0, childIndex |-> 0,
     out |-> <<>>, item |-> NIL, err |-> FALSE]

\* The Iterator fields of a new Iterator; out is the sequence of the items
\* its Next calls have returned, (item, err) is what the last Next returned.
Iterator(itemIndex, childIndex, curr, dir) ==
    [dir |-> dir, curr |-> curr, itemIndex |-> itemIndex, childIndex |-> childIndex,
     out |-> <<>>, item |-> NIL, err |-> FALSE]

BTreeNewIterator(ns, rt) == Iterator(0, 0, min(ns, rt), forward)

BTreeNewReverseIterator(ns, rt) ==
    LET curr == max(ns, rt)
    IN  Iterator(Len(ns[curr].items) - 1, Len(ns[curr].children) - 1, curr, reverse)

\* Mutant of HasNext: an empty node counts as a next item.
HasNextNonNil(ns, bi) == bi.curr # NIL

\* HasNext: the iterator can iterate.
HasNext(ns, bi) == bi.curr # NIL /\ Len(ns[bi.curr].items) # 0

\* Mutant of Ascend: the iterator stops at the parent whatever the index.
AscendOnce(ns, bi, curr) ==
    LET n == nthChildOfParent(ns, curr)
        itemIndex == IF bi.dir = reverse THEN n - 1 ELSE n
        childIndex == IF bi.dir = reverse THEN n - 1 ELSE n + 1
    IN  [bi EXCEPT !.itemIndex = itemIndex, !.childIndex = childIndex,
                   !.curr = ns[curr].parent]

\* Next at a leaf with no more items: up from curr to the first ancestor that
\* has an item after (before, in reverse) the subtree left, or to nil.
RECURSIVE Ascend(_, _, _)
Ascend(ns, bi, curr) ==
    LET n == nthChildOfParent(ns, curr)
        itemIndex == IF bi.dir = reverse THEN n - 1 ELSE n
        childIndex == IF bi.dir = reverse THEN n - 1 ELSE n + 1
        up == ns[curr].parent
        bi1 == [bi EXCEPT !.itemIndex = itemIndex, !.childIndex = childIndex]
    IN  IF up = NIL THEN [bi1 EXCEPT !.curr = NIL]
        ELSE IF 0 <= itemIndex /\ itemIndex < Len(ns[up].items)
        THEN [bi1 EXCEPT !.curr = up]
        ELSE Ascend(ns, bi1, up)

\* Next at an internal node: down from curr to the first (last, in reverse)
\* leaf of its subtree.
RECURSIVE Descend(_, _, _)
Descend(ns, dir, curr) ==
    IF Len(ns[curr].children) = 0 THEN curr
    ELSE Descend(ns, dir,
                 ns[curr].children[IF dir = reverse THEN Len(ns[curr].children) ELSE 1])

\* Next: the iterator after the call, with the item and the error returned;
\* fault when the call panics.
IteratorNext(ns, bi) ==
    IF ~HasNext(ns, bi)
    THEN [iter |-> [bi EXCEPT !.item = NIL, !.err = TRUE], fault |-> FALSE]
    ELSE
    LET curr == bi.curr
    IN
    IF bi.itemIndex < 0 \/ bi.itemIndex >= Len(ns[curr].items)
    THEN [iter |-> bi, fault |-> TRUE]
    ELSE
    LET nextItem == ns[curr].items[bi.itemIndex + 1]
        ret == [bi EXCEPT !.item = nextItem, !.err = FALSE, !.out = Append(@, nextItem)]
    IN
    IF Len(ns[curr].children) = 0
    THEN LET bi1 == [ret EXCEPT !.itemIndex = @ + bi.dir]
         IN  IF 0 <= bi1.itemIndex /\ bi1.itemIndex < Len(ns[curr].items)
             THEN [iter |-> bi1, fault |-> FALSE]
             ELSE [iter |-> Ascend(ns, bi1, curr), fault |-> FALSE]
    ELSE IF bi.childIndex < 0 \/ bi.childIndex >= Len(ns[curr].children)
    THEN [iter |-> bi, fault |-> TRUE]
    ELSE LET leaf == Descend(ns, bi.dir, ns[curr].children[bi.childIndex + 1])
         IN  [iter |-> [ret EXCEPT !.curr = leaf,
                                   !.itemIndex = IF bi.dir = reverse
                                                 THEN Len(ns[leaf].items) - 1 ELSE 0],
              fault |-> FALSE]

-----------------------------------------------------------------------------
\* Merge.

\* The locals of Merge: the two iterators, the items held back from the last
\* iteration of the loop, and the items merged so far; pc is "none" before
\* the call, "loop" in the loop, "done" after the return of a tree and
\* "error" after the return of an error.
MergeLocals(pc, aIter, bIter, oldA, oldB, merged) ==
    [pc |-> pc, aIter |-> aIter, bIter |-> bIter,
     oldA |-> oldA, oldB |-> oldB, merged |-> merged]

NoMerge == MergeLocals("none", NoIter, NoIter, NIL, NIL, <<>>)

\* Mutant of IteratorNextNodes: Next climbs by unlinking the node it leaves.
IteratorNextUnlinks(ns, bi) ==
    IF bi.curr # NIL /\ Len(ns[bi.curr].children) = 0
    THEN [ns EXCEPT ![bi.curr].parent = NIL]
    ELSE ns

\* The nodes of the tree after a call of Next: Next assigns to bi.itemIndex,
\* bi.childIndex and bi.curr, and to its local curr, and to no field of a
\* node.
IteratorNextNodes(ns, bi) == ns

\* The tree t of Merge after an iteration of the loop, which calls Next on
\* the iterator of t when no item of t is pending and the iterator has one.
Pulled(t, bi, old) ==
    IF old = NIL /\ HasNext(t.nodes, bi)
    THEN [t EXCEPT !.nodes = IteratorNextNodes(t.nodes, bi)]
    ELSE t

\* Mutant of MergeStart: the orders are not compared.
MergeStartAnyOrder(a, b) ==
    [pc |-> "loop", aIter |-> BTreeNewIterator(a.nodes, a.root),
     bIter |-> BTreeNewIterator(b.nodes, b.root),
     oldA |-> NIL, oldB |-> NIL, merged |-> <<>>]

\* Merge up to its loop: the error for trees of different orders, or the two
\* iterators.
MergeStart(a, b) ==
    IF a.order # b.order
    THEN MergeLocals("error", NoIter, NoIter, NIL, NIL, <<>>)
    ELSE MergeLocals("loop", BTreeNewIterator(a.nodes, a.root),
                     BTreeNewIterator(b.nodes, b.root), NIL, NIL, <<>>)

\* The loop of Merge goes on.
MergeMore(a, b, st) == HasNext(a.nodes, st.aIter) \/ HasNext(b.nodes, st.bIter)

\* Mutant of MergeIteration: an item of a that was appended stays pending.
MergeIterationKeepA(a, b, st) ==
    LET pullA == st.oldA = NIL /\ HasNext(a.nodes, st.aIter)
        ra == IteratorNext(a.nodes, st.aIter)
        aIter == IF pullA THEN ra.iter ELSE st.aIter
        aNext == IF pullA THEN ra.iter.item ELSE st.oldA
        pullB == st.oldB = NIL /\ HasNext(b.nodes, st.bIter)
        rb == IteratorNext(b.nodes, st.bIter)
        bIter == IF pullB THEN rb.iter ELSE st.bIter
        bNext == IF pullB THEN rb.iter.item ELSE st.oldB
    IN
    IF (pullA /\ ra.fault) \/ (pullB /\ rb.fault) THEN [locals |-> st, fault |-> TRUE]
    ELSE IF aNext # NIL /\ (bNext = NIL \/ Less(aNext, bNext))
    THEN [locals |-> MergeLocals("loop", aIter, bIter, aNext, bNext, Append(st.merged, aNext)),
          fault |-> FALSE]
    ELSE IF bNext # NIL /\ (aNext = NIL \/ Less(bNext, aNext))
    THEN [locals |-> MergeLocals("loop", aIter, bIter, aNext, NIL, Append(st.merged, bNext)),
          fault |-> FALSE]
    ELSE [locals |-> MergeLocals("loop", aIter, bIter, st.oldA, st.oldB, st.merged),
          fault |-> FALSE]

\* Mutant of MergeIteration: the items are read off the iterators, which stay
\* where they are.
MergeIterationPeek(a, b, st) ==
    LET pullA == st.oldA = NIL /\ HasNext(a.nodes, st.aIter)
        ra == IteratorNext(a.nodes, st.aIter)
        aNext == IF pullA THEN ra.iter.item ELSE st.oldA
        pullB == st.oldB = NIL /\ HasNext(b.nodes, st.bIter)
        rb == IteratorNext(b.nodes, st.bIter)
        bNext == IF pullB THEN rb.iter.item ELSE st.oldB
    IN
    IF (pullA /\ ra.fault) \/ (pullB /\ rb.fault) THEN [locals |-> st, fault |-> TRUE]
    ELSE IF aNext # NIL /\ (bNext = NIL \/ Less(aNext, bNext))
    THEN [locals |-> MergeLocals("loop", st.aIter, st.bIter, NIL, bNext,
                                 Append(st.merged, aNext)),
          fault |-> FALSE]
    ELSE IF bNext # NIL /\ (aNext = NIL \/ Less(bNext, aNext))
    THEN [locals |-> MergeLocals("loop", st.aIter, st.bIter, aNext, NIL,
                                 Append(st.merged, bNext)),
          fault |-> FALSE]
    ELSE [locals |-> MergeLocals("loop", st.aIter, st.bIter, st.oldA, st.oldB, st.merged),
          fault |-> FALSE]

\* Mutant of MergeIteration: the larger of the two items is appended.
MergeIterationLarger(a, b, st) ==
    LET pullA == st.oldA = NIL /\ HasNext(a.nodes, st.aIter)
        ra == IteratorNext(a.nodes, st.aIter)
        aIter == IF pullA THEN ra.iter ELSE st.aIter
        aNext == IF pullA THEN ra.iter.item ELSE st.oldA
        pullB == st.oldB = NIL /\ HasNext(b.nodes, st.bIter)
        rb == IteratorNext(b.nodes, st.bIter)
        bIter == IF pullB THEN rb.iter ELSE st.bIter
        bNext == IF pullB THEN rb.iter.item ELSE st.oldB
    IN
    IF (pullA /\ ra.fault) \/ (pullB /\ rb.fault) THEN [locals |-> st, fault |-> TRUE]
    ELSE IF aNext # NIL /\ (bNext = NIL \/ Less(bNext, aNext))
    THEN [locals |-> [pc |-> "loop", aIter |-> aIter, bIter |-> bIter, oldA |-> NIL,
                      oldB |-> bNext, merged |-> Append(st.merged, aNext)],
          fault |-> FALSE]
    ELSE IF bNext # NIL /\ (aNext = NIL \/ Less(aNext, bNext))
    THEN [locals |-> [pc |-> "loop", aIter |-> aIter, bIter |-> bIter, oldA |-> aNext,
                      oldB |-> NIL, merged |-> Append(st.merged, bNext)],
          fault |-> FALSE]
    ELSE [locals |-> [pc |-> "loop", aIter |-> aIter, bIter |-> bIter, oldA |-> st.oldA,
                      oldB |-> st.oldB, merged |-> st.merged],
          fault |-> FALSE]

\* Mutant of MergeIteration: an item of a held back for the next iteration
\* is forgotten.
MergeIterationForgetA(a, b, st) ==
    LET pullA == st.oldA = NIL /\ HasNext(a.nodes, st.aIter)
        ra == IteratorNext(a.nodes, st.aIter)
        aIter == IF pullA THEN ra.iter ELSE st.aIter
        aNext == IF pullA THEN ra.iter.item ELSE st.oldA
        pullB == st.oldB = NIL /\ HasNext(b.nodes, st.bIter)
        rb == IteratorNext(b.nodes, st.bIter)
        bIter == IF pullB THEN rb.iter ELSE st.bIter
        bNext == IF pullB THEN rb.iter.item ELSE st.oldB
    IN
    IF (pullA /\ ra.fault) \/ (pullB /\ rb.fault) THEN [locals |-> st, fault |-> TRUE]
    ELSE IF aNext # NIL /\ (bNext = NIL \/ Less(aNext, bNext))
    THEN [locals |-> [pc |-> "loop", aIter |-> aIter, bIter |-> bIter, oldA |-> NIL,
                      oldB |-> bNext, merged |-> Append(st.merged, aNext)],
          fault |-> FALSE]
    ELSE IF bNext # NIL /\ (aNext = NIL \/ Less(bNext, aNext))
    THEN [locals |-> [pc |-> "loop", aIter |-> aIter, bIter |-> bIter, oldA |-> NIL,
                      oldB |-> NIL, merged |-> Append(st.merged, bNext)],
          fault |-> FALSE]
    ELSE [locals |-> [pc |-> "loop", aIter |-> aIter, bIter |-> bIter, oldA |-> st.oldA,
                      oldB |-> st.oldB, merged |-> st.merged],
          fault |-> FALSE]

\* One iteration of the loop of Merge; fault when a Next panics.
MergeIteration(a, b, st) ==
    LET pullA == st.oldA = NIL /\ HasNext(a.nodes, st.aIter)
        ra == IteratorNext(a.nodes, st.aIter)
        aIter == IF pullA THEN ra.iter ELSE st.aIter
        aNext == IF pullA THEN ra.iter.item ELSE st.oldA
        pullB == st.oldB = NIL /\ HasNext(b.nodes, st.bIter)
        rb == IteratorNext(b.nodes, st.bIter)
        bIter == IF pullB THEN rb.iter ELSE st.bIter
        bNext == IF pullB THEN rb.iter.item ELSE st.oldB
    IN
    IF (pullA /\ ra.fault) \/ (pullB /\ rb.fault) THEN [locals |-> st, fault |-> TRUE]
    ELSE IF aNext # NIL /\ (bNext = NIL \/ Less(aNext, bNext))
    THEN [locals |-> MergeLocals("loop", aIter, bIter, NIL, bNext, Append(st.merged, aNext)),
          fault |-> FALSE]
    ELSE IF bNext # NIL /\ (aNext = NIL \/ Less(bNext, aNext))
    THEN [locals |-> MergeLocals("loop", aIter, bIter, aNext, NIL, Append(st.merged, bNext)),
          fault |-> FALSE]
    ELSE [locals |-> MergeLocals("loop", aIter, bIter, st.oldA, st.oldB, st.merged),
          fault |-> FALSE]

\* The loop of Merge from the locals st to its break: the merged items.
RECURSIVE MergeItems(_, _, _)
MergeItems(a, b, st) ==
    IF ~MergeMore(a, b, st) THEN [merged |-> st.merged, fault |-> FALSE]
    ELSE LET r == MergeIteration(a, b, st)
         IN  IF r.fault THEN [merged |-> st.merged, fault |-> TRUE]
             ELSE MergeItems(a, b, r.locals)

\* Merge(a, b): the tree returned, err for the error, fault for a panic.
BTreeMerge(a, b) ==
    IF a.order # b.order
    THEN [err |-> TRUE, fault |-> FALSE, tree |-> New(b.order)]
    ELSE LET its == MergeItems(a, b, MergeStart(a, b))
             mt == Bulkload(b.order, its.merged)
         IN  [err |-> FALSE, fault |-> its.fault \/ mt.fault,
              tree |-> BTree(b.order, Collect(mt.nodes, mt.root), 1)]

-----------------------------------------------------------------------------
\* The history of the Insert and Delete calls.

\* live is the set of the keys inserted and not deleted afterwards; phase is
\* "insert" while only Insert has been called, "delete" once Delete calls
\* have followed them, "mixed" after an Insert that follows a Delete, and
\* "off" when no history is kept.
History(live, phase) == [live |-> live, phase |-> phase]

NoHist == History({}, "off")

Record(h, op, k) ==
    IF h.phase = "off" THEN h
    ELSE IF op = "Insert"
    THEN History(h.live \cup {k}, IF h.phase = "insert" THEN "insert" ELSE "mixed")
    ELSE History(h.live \ {k}, IF h.phase = "mixed" THEN "mixed" ELSE "delete")

\* No Bulkload call is under way.
NoBulk == [pc |-> "none", max |-> NIL, i |-> 0]

\* No Insert call is in progress.
NoSpl == [pc |-> "none", node |-> NIL, item |-> NIL]

\* No Delete call is in progress.
NoReb == [pc |-> "none", n |-> NIL, minItems |-> 0]

-----------------------------------------------------------------------------
\* New(order): an empty leaf as the root.
Init ==
    /\ order \in Orders
    /\ root = 1
    /\ nodes = [x \in {1} |-> newNode(<<>>, <<>>, NIL)]
    /\ fault = FALSE
    /\ last = [op |-> "New", key |-> 0, present |-> FALSE]
    /\ iter = NoIter
    /\ args = NewArgs
    /\ merge = NoMerge
    /\ hist = NoHist
    /\ bulk = NoBulk
    /\ reb = NoReb
    /\ spl = NoSpl

Insert(k) ==
    /\ ~fault
    /\ LET r == BTreeInsert(nodes, root, order, k)
       IN  /\ nodes' = Collect(r.nodes, r.root)
           /\ root' = 1
           /\ fault' = r.fault
    /\ last' = [op |-> "Insert", key |-> k, present |-> Search(nodes, root, k).ok]
    /\ hist' = Record(hist, "Insert", k)
    /\ UNCHANGED <<order, iter, args, merge, bulk, reb, spl>>

Delete(k) ==
    /\ ~fault
    /\ LET r == BTreeDelete(nodes, root, order, k)
       IN  /\ nodes' = Collect(r.nodes, r.root)
           /\ root' = 1
           /\ fault' = r.fault
    /\ last' = [op |-> "Delete", key |-> k, present |-> Search(nodes, root, k).ok]
    /\ hist' = Record(hist, "Delete", k)
    /\ UNCHANGED <<order, iter, args, merge, bulk, reb, spl>>

Next ==
    \/ \E k \in Keys(order) : Insert(k)
    \/ \E k \in Keys(order) : Delete(k)

Spec == Init /\ [][Next]_vars

-----------------------------------------------------------------------------
\* Iteration over the trees that Insert and Delete build.  The tree is not
\* changed once an Iterator is in use.

Call(op) == [op |-> op, key |-> 0, present |-> FALSE]

NewIterator ==
    /\ ~fault
    /\ iter = NoIter
    /\ iter' = BTreeNewIterator(nodes, root)
    /\ last' = Call("NewIterator")
    /\ UNCHANGED <<order, root, nodes, fault, args, merge, hist, bulk, reb, spl>>

NewReverseIterator ==
    /\ ~fault
    /\ iter = NoIter
    /\ iter' = BTreeNewReverseIterator(nodes, root)
    /\ last' = Call("NewReverseIterator")
    /\ UNCHANGED <<order, root, nodes, fault, args, merge, hist, bulk, reb, spl>>

IterNext ==
    /\ ~fault
    /\ iter # NoIter
    /\ LET r == IteratorNext(nodes, iter)
       IN  /\ iter' = r.iter
           /\ fault' = r.fault
    /\ last' = Call("Next")
    /\ UNCHANGED <<order, root, nodes, args, merge, hist, bulk, reb, spl>>

NextIter ==
    \/ \E k \in IterKeys(order) : iter = NoIter /\ Insert(k)
    \/ \E k \in IterKeys(order) : iter = NoIter /\ Delete(k)
    \/ NewIterator
    \/ NewReverseIterator
    \/ IterNext

SpecIter == Init /\ [][NextIter]_vars

-----------------------------------------------------------------------------
\* Insert and Delete calls on New(order) with their history.

InitFill ==
    /\ order \in Orders
    /\ root = New(order).root
    /\ nodes = New(order).nodes
    /\ fault = FALSE
    /\ last = Call("New")
    /\ iter = NoIter
    /\ args = NewArgs
    /\ merge = NoMerge
    /\ hist = History({}, "insert")
    /\ bulk = NoBulk
    /\ reb = NoReb
    /\ spl = NoSpl

NextFill ==
    \/ \E k \in FillKeys(order) : Insert(k)
    \/ \E k \in FillKeys(order) : Delete(k)

SpecFill == InitFill /\ [][NextFill]_vars

-----------------------------------------------------------------------------
\* Bulkload of the ascending sequences of keys, and a forward iteration over
\* the tree it returns.

\* The items of a set of keys in ascending order.
RECURSIVE Sorted(_)
Sorted(S) ==
    IF S = {} THEN <<>>
    ELSE LET lo == CHOOSE x \in S : \A y \in S : ~Less(y, x)
         IN  <<lo>> \o Sorted(S \ {lo})

InitBulk ==
    /\ order \in Orders
    /\ root = New(order).root
    /\ nodes = New(order).nodes
    /\ fault = FALSE
    /\ last = Call("New")
    /\ iter = NoIter
    /\ \E S \in SUBSET (1..BulkMaxKey) :
           args = Args("Bulkload", Sorted(S), New(MinOrder), New(MinOrder))
    /\ merge = NoMerge
    /\ hist = NoHist
    /\ bulk = NoBulk
    /\ reb = NoReb
    /\ spl = NoSpl

BulkloadCall ==
    /\ last = Call("New")
    /\ LET r == Bulkload(order, args.items)
       IN  /\ nodes' = Collect(r.nodes, r.root)
           /\ root' = 1
           /\ fault' = r.fault
    /\ last' = Call("Bulkload")
    /\ UNCHANGED <<order, iter, args, merge, hist, bulk, reb, spl>>

NextBulk ==
    \/ BulkloadCall
    \/ last # Call("New") /\ NewIterator
    \/ last # Call("New") /\ IterNext

SpecBulk == InitBulk /\ [][NextBulk]_vars

-----------------------------------------------------------------------------
\* Bulkload, one iteration of its loop at a time.

\* b := New(order); max := b.root
BulkloadStart ==
    /\ bulk.pc = "none"
    /\ bulk' = [pc |-> "loop", max |-> root, i |-> 0]
    /\ UNCHANGED <<order, root, nodes, fault, last, iter, args, merge, hist, reb, spl>>

\* One iteration of the loop; the nodes keep their names to the return.
BulkloadLoop ==
    /\ ~fault
    /\ bulk.pc = "loop"
    /\ bulk.i < Len(args.items)
    /\ LET r == BulkloadIteration(nodes, root, order, bulk.max, args.items[bulk.i + 1])
       IN  /\ nodes' = r.nodes
           /\ root' = r.root
           /\ fault' = r.fault
           /\ bulk' = [pc |-> "loop", max |-> r.max, i |-> bulk.i + 1]
    /\ UNCHANGED <<order, last, iter, args, merge, hist, reb, spl>>

\* The end of the loop and the return.
BulkloadReturn ==
    /\ ~fault
    /\ bulk.pc = "loop"
    /\ ~(bulk.i < Len(args.items))
    /\ nodes' = Collect(nodes, root)
    /\ root' = 1
    /\ bulk' = [pc |-> "done", max |-> NIL, i |-> bulk.i]
    /\ last' = Call("Bulkload")
    /\ UNCHANGED <<order, fault, iter, args, merge, hist, reb, spl>>

NextLoad ==
    \/ BulkloadStart
    \/ BulkloadLoop
    \/ BulkloadReturn

SpecLoad == InitBulk /\ [][NextLoad]_vars

-----------------------------------------------------------------------------
\* Merge of two trees made by Bulkload.

\* The tree Bulkload returns for the keys of S.
TreeOf(m, S) ==
    LET r == Bulkload(m, Sorted(S))
    IN  BTree(m, Collect(r.nodes, r.root), 1)

InitMerge ==
    /\ order \in Orders
    /\ root = New(order).root
    /\ nodes = New(order).nodes
    /\ fault = FALSE
    /\ last = Call("New")
    /\ iter = NoIter
    /\ \E ma \in Orders : \E SA, SB \in SUBSET (1..MergeMaxKey) :
           args = Args("Merge", <<>>, TreeOf(ma, SA), TreeOf(order, SB))
    /\ merge = NoMerge
    /\ hist = NoHist
    /\ bulk = NoBulk
    /\ reb = NoReb
    /\ spl = NoSpl

\* Merge from its call to the loop, or to the return of the error.
MergeCall ==
    /\ merge.pc = "none"
    /\ merge' = MergeStart(args.a, args.b)
    /\ last' = IF merge'.pc = "error" THEN Call("Merge") ELSE last
    /\ UNCHANGED <<order, root, nodes, fault, iter, args, hist, bulk, reb, spl>>

\* One iteration of the loop.
MergeLoop ==
    /\ ~fault
    /\ merge.pc = "loop"
    /\ MergeMore(args.a, args.b, merge)
    /\ LET r == MergeIteration(args.a, args.b, merge)
       IN  /\ merge' = r.locals
           /\ fault' = r.fault
    /\ args' = [args EXCEPT !.a = Pulled(args.a, merge.aIter, merge.oldA),
                            !.b = Pulled(args.b, merge.bIter, merge.oldB)]
    /\ UNCHANGED <<order, root, nodes, last, iter, hist, bulk, reb, spl>>

\* The end of the loop, Bulkload of the merged items and the return.
MergeReturn ==
    /\ ~fault
    /\ merge.pc = "loop"
    /\ ~MergeMore(args.a, args.b, merge)
    /\ LET r == Bulkload(args.b.order, merge.merged)
       IN  /\ nodes' = Collect(r.nodes, r.root)
           /\ root' = 1
           /\ fault' = r.fault
    /\ merge' = [merge EXCEPT !.pc = "done"]
    /\ last' = Call("Merge")
    /\ UNCHANGED <<order, iter, args, hist, bulk, reb, spl>>

NextMerge ==
    \/ MergeCall
    \/ MergeLoop
    \/ MergeReturn

SpecMerge == InitMerge /\ [][NextMerge]_vars

\* Merge of two trees of the same order, which runs on up to the end of its
\* loop: the call goes from its test of the orders into the loop, and an
\* iteration that the loop condition allows is run.
InitMergeSame == InitMerge /\ args.a.order = args.b.order

SpecMergeFair ==
    InitMergeSame /\ [][NextMerge]_vars /\ WF_vars(MergeCall) /\ WF_vars(MergeLoop)

-----------------------------------------------------------------------------
\* Delete, one invocation of rebalance at a time, on the trees that Insert
\* and Delete calls build.

\* Insert(k), between the Delete calls: the call alone is recorded.
InsertCall(k) ==
    /\ ~fault
    /\ reb.pc = "none"
    /\ LET r == BTreeInsert(nodes, root, order, k)
       IN  /\ nodes' = Collect(r.nodes, r.root)
           /\ root' = 1
           /\ fault' = r.fault
    /\ last' = Call("Insert")
    /\ UNCHANGED <<order, iter, args, merge, hist, bulk, reb, spl>>

\* Delete(k) up to its call of rebalance: the search, step 1, and the test
\* of the affected leaf.
DeleteStart(k) ==
    /\ ~fault
    /\ reb.pc = "none"
    /\ LET r == search(nodes, root, k)
       IN  IF r.index = -1
           THEN /\ reb' = [reb EXCEPT !.pc = "done"]
                /\ UNCHANGED <<nodes, fault>>
           ELSE IF Len(nodes[r.node].children) # 0
                   /\ r.index >= Len(nodes[r.node].children)
           THEN /\ fault' = TRUE
                /\ reb' = [reb EXCEPT !.pc = "done"]
                /\ UNCHANGED nodes
           ELSE LET st == DeleteItem(nodes, r.node, r.index)
                IN  /\ nodes' = st.nodes
                    /\ reb' = IF /\ Len(st.nodes[st.affected].items) = 0
                                 /\ st.nodes[st.affected].parent # NIL
                              THEN [pc |-> "rebalance", n |-> st.affected, minItems |-> 1]
                              ELSE [reb EXCEPT !.pc = "done"]
                    /\ UNCHANGED fault
    /\ last' = Call("Delete")
    /\ UNCHANGED <<order, root, iter, args, merge, hist, bulk, spl>>

\* b.rebalance(n, minItems), up to its return or its recursive call.
RebalanceStep ==
    /\ ~fault
    /\ reb.pc = "rebalance"
    /\ LET s == RebalanceOnce(nodes, root, order, reb.n, reb.minItems)
       IN  /\ nodes' = s.nodes
           /\ root' = s.root
           /\ fault' = s.fault
           /\ reb' = IF s.next = NIL
                     THEN [reb EXCEPT !.pc = "done"]
                     ELSE [pc |-> "rebalance", n |-> s.next, minItems |-> MinItems(order)]
    /\ UNCHANGED <<order, last, iter, args, merge, hist, bulk, spl>>

\* Delete returns.
DeleteReturn ==
    /\ ~fault
    /\ reb.pc = "done"
    /\ nodes' = Collect(nodes, root)
    /\ root' = 1
    /\ reb' = NoReb
    /\ UNCHANGED <<order, fault, last, iter, args, merge, hist, bulk, spl>>

NextDel ==
    \/ \E k \in DelKeys(order) : InsertCall(k)
    \/ \E k \in DelKeys(order) : DeleteStart(k)
    \/ RebalanceStep
    \/ DeleteReturn

SpecDel == Init /\ [][NextDel]_vars

-----------------------------------------------------------------------------
\* Insert, one invocation of split at a time, on the trees that Insert and
\* Delete calls build.

\* Insert(k) up to its call of split: the descent to the leaf.
InsertStart(k) ==
    /\ ~fault
    /\ spl.pc = "none"
    /\ LET curr == InsertLeaf(nodes, root, k)
       IN  spl' = IF curr = NIL
                  THEN [spl EXCEPT !.pc = "done"]
                  ELSE [pc |-> "split", node |-> curr, item |-> k]
    /\ last' = [op |-> "Insert", key |-> k, present |-> Search(nodes, root, k).ok]
    /\ UNCHANGED <<order, root, nodes, fault, iter, args, merge, hist, bulk, reb>>

\* b.split(node, item), up to its return or its recursive call.
SplitStep ==
    /\ ~fault
    /\ spl.pc = "split"
    /\ LET s == SplitOnce(nodes, root, order, spl.node, spl.item)
       IN  /\ nodes' = s.nodes
           /\ root' = s.root
           /\ fault' = s.fault
           /\ spl' = IF s.next = NIL
                     THEN [spl EXCEPT !.pc = "done"]
                     ELSE [pc |-> "split", node |-> s.next, item |-> s.item]
    /\ UNCHANGED <<order, last, iter, args, merge, hist, bulk, reb>>

\* Insert returns.
InsertReturn ==
    /\ ~fault
    /\ spl.pc = "done"
    /\ nodes' = Collect(nodes, root)
    /\ root' = 1
    /\ spl' = NoSpl
    /\ UNCHANGED <<order, fault, last, iter, args, merge, hist, bulk, reb>>

NextIns ==
    \/ \E k \in FillKeys(order) : InsertStart(k)
    \/ SplitStep
    \/ InsertReturn
    \/ spl.pc = "none" /\ \E k \in FillKeys(order) : Delete(k)

SpecIns == Init /\ [][NextIns]_vars

-----------------------------------------------------------------------------
\* The structure of the tree below the root.

Nodes == Reachable(nodes, root)

IsLeaf(n) == Len(nodes[n].children) = 0

\* Every key stored in the subtree of n.
RECURSIVE SubtreeKeys(_)
SubtreeKeys(n) ==
    Range(nodes[n].items)
        \cup UNION {SubtreeKeys(nodes[n].children[i]) : i \in 1..Len(nodes[n].children)}

\* The depths at which the leaves of the subtree of n lie, n being at depth d.
RECURSIVE LeafDepths(_, _)
LeafDepths(n, d) ==
    IF IsLeaf(n) THEN {d}
    ELSE UNION {LeafDepths(nodes[n].children[i], d + 1) : i \in 1..Len(nodes[n].children)}

\* The items of n are strictly ascending.
Ascending(n) ==
    \A i \in 1..(Len(nodes[n].items) - 1) : Less(nodes[n].items[i], nodes[n].items[i + 1])

\* The keys of the subtree children[j] of n lie between the separators that
\* flank it (j is the Go index of the child).
Bounded(n, j) ==
    LET its == nodes[n].items
        ks == SubtreeKeys(nodes[n].children[j + 1])
    IN  /\ j >= 1 /\ j - 1 < Len(its) => \A x \in ks : Less(its[j], x)
        /\ j < Len(its) => \A x \in ks : Less(x, its[j + 1])

\* The last call was made and has returned.
Returned(op) == ~fault /\ last.op = op

Internal(n) == ~IsLeaf(n)

\* C1: after each call the keys of every subtree children[j] lie strictly
\* between the separators flanking it, and the items of every node ascend.
C1_Ordered ==
    ~fault =>
        \A n \in Nodes :
            /\ Ascending(n)
            /\ \A j \in 0..(Len(nodes[n].children) - 1) : Bounded(n, j)

\* A Delete has returned and left a node with two separators and three
\* subtrees that all hold keys.
C1_Witness ==
    /\ Returned("Delete") /\ last.present
    /\ \E n \in Nodes :
           /\ Len(nodes[n].items) >= 2
           /\ Len(nodes[n].children) = Len(nodes[n].items) + 1
           /\ \A i \in 1..Len(nodes[n].children) : SubtreeKeys(nodes[n].children[i]) # {}

\* C2: after each call all leaves are at the same depth.
C2_LeavesSameDepth == ~fault => Cardinality(LeafDepths(root, 0)) = 1

\* A Delete has returned on a tree of order 3 or more that is three levels
\* deep.
C2_Witness ==
    /\ Returned("Delete") /\ last.present
    /\ order > MinOrder
    /\ LeafDepths(root, 0) = {2}

\* C3: after each call every node has at most `order` children.
C3_AtMostChildren == ~fault => \A n \in Nodes : Len(nodes[n].children) <= order

\* An Insert has returned and a node has `order` children.
C3_Witness ==
    /\ Returned("Insert") /\ ~last.present
    /\ order > MinOrder
    /\ \E n \in Nodes : Len(nodes[n].children) = order

\* C4: after each call every internal node but the root has at least
\* ceil(order / 2) children.
C4_AtLeastChildren ==
    ~fault =>
        \A n \in Nodes :
            Internal(n) /\ n # root => Len(nodes[n].children) >= (order + 1) \div 2

\* A Delete has returned on a tree of order 3 or more in which an internal
\* node below the root has ceil(order / 2) children and no more.
C4_Witness ==
    /\ Returned("Delete") /\ last.present
    /\ order > MinOrder
    /\ \E n \in Nodes :
           Internal(n) /\ n # root /\ Len(nodes[n].children) = (order + 1) \div 2

\* C5: after each call an internal node with k children holds k - 1 items.
C5_RightNumKeys ==
    ~fault =>
        \A n \in Nodes : Internal(n) => Len(nodes[n].items) = Len(nodes[n].children) - 1

\* A Delete has returned and the root has three children or more.
C5_Witness ==
    /\ Returned("Delete") /\ last.present
    /\ Len(nodes[root].children) >= 3

\* C6: after each call the root is a leaf or has at least 2 children.
C6_Root == ~fault => IsLeaf(root) \/ Len(nodes[root].children) >= 2

\* A Delete has returned and the root has two children, both of them
\* leaves.
C6_Witness ==
    /\ Returned("Delete") /\ last.present
    /\ Len(nodes[root].children) = 2
    /\ \A i \in 1..2 : IsLeaf(nodes[root].children[i])

\* C7: after each call every child's parent field is the node holding the
\* link to it, and the root's parent field is nil.
C7_Parents ==
    ~fault =>
        /\ nodes[root].parent = NIL
        /\ \A n \in Nodes : \A i \in 1..Len(nodes[n].children) :
               nodes[nodes[n].children[i]].parent = n

\* An Insert has returned and a node has a parent that has a parent.
C7_Witness ==
    /\ Returned("Insert") /\ ~last.present
    /\ \E n \in Nodes :
           /\ nodes[n].parent # NIL
           /\ nodes[nodes[n].parent].parent # NIL

\* C8: after Insert(k) of a key that was absent, Search(k) returns an item
\* equal to k and no error.
C8_InsertThenSearch ==
    Returned("Insert") /\ ~last.present =>
        LET r == Search(nodes, root, last.key)
        IN  r.ok /\ ~Less(r.item, last.key) /\ ~Less(last.key, r.item)

\* An Insert of an absent key has returned and the key is found in an internal
\* node: a split has promoted it.
C8_Witness ==
    /\ Returned("Insert") /\ ~last.present
    /\ LET r == search(nodes, root, last.key)
       IN  r.index # -1 /\ Internal(r.node)

\* C9: after Delete(k) of a key that was present, Search(k) returns the
\* not-found error.
C9_DeleteThenSearch ==
    Returned("Delete") /\ last.present => ~Search(nodes, root, last.key).ok

\* C10: every Delete call runs to completion without a runtime fault: the
\* node rebalance is entered for has a sibling, and every separator index is
\* within the parent's items.
C10_DeleteNoFault == ~(fault /\ last.op = "Delete")

\* The keys stored in the tree.
TreeKeys == SubtreeKeys(root)

\* C11: Insert(k) of a key that is in the tree leaves the whole tree as it
\* was: the same root, the same nodes, the same items and child links.
C11_InsertPresentNoop ==
    [][last'.op = "Insert" /\ last'.key \in TreeKeys
           => nodes' = nodes /\ root' = root /\ fault' = fault]_vars

\* An Insert of a key that was in a tree of two levels or more has returned.
C11_Witness ==
    /\ Returned("Insert") /\ last.present
    /\ Internal(root)
    /\ last.key \in TreeKeys

\* C12: Delete(k) of a key that is not in the tree leaves the whole tree as
\* it was.
C12_DeleteAbsentNoop ==
    [][last'.op = "Delete" /\ last'.key \notin TreeKeys
           => nodes' = nodes /\ root' = root /\ fault' = fault]_vars

\* A Delete of a key that was not in a tree of two levels or more has
\* returned.
C12_Witness ==
    /\ Returned("Delete") /\ ~last.present
    /\ Internal(root)
    /\ last.key \notin TreeKeys

\* C13: Search(k) of a key that is not in the tree returns no item and the
\* error.
C13_SearchAbsent ==
    \A k \in Keys(order) :
        k \notin TreeKeys => Search(nodes, root, k) = [ok |-> FALSE, item |-> NIL]

\* A tree of two levels or more lacks a key that lies between two keys it
\* holds.
C13_Witness ==
    /\ ~fault
    /\ Internal(root)
    /\ \E k \in Keys(order) :
           /\ k \notin TreeKeys
           /\ \E a, b \in TreeKeys : a < k /\ k < b


-----------------------------------------------------------------------------
Reverse(s) == [i \in 1..Len(s) |-> s[Len(s) + 1 - i]]

IsPrefix(s, t) == Len(s) <= Len(t) /\ s = Take(t, Len(s))

\* C14: a forward iteration does not panic, the items it has returned so far
\* are the first keys of the tree in ascending order, and when HasNext is
\* false they are all the keys of the tree, each returned once.
C14_ForwardIteration ==
    iter.dir = forward =>
        /\ ~fault
        /\ IsPrefix(iter.out, Sorted(TreeKeys))
        /\ ~HasNext(nodes, iter) => iter.out = Sorted(TreeKeys)

\* C15: a reverse iteration does not panic, the items it has returned so far
\* are the last keys of the tree in descending order, and when HasNext is
\* false they are all the keys of the tree, each returned once.
C15_ReverseIteration ==
    iter.dir = reverse =>
        /\ ~fault
        /\ IsPrefix(iter.out, Reverse(Sorted(TreeKeys)))
        /\ ~HasNext(nodes, iter) => iter.out = Reverse(Sorted(TreeKeys))

\* The iterator has returned as many items as the tree holds.
ReturnedAll == iter # NoIter /\ Len(iter.out) = Cardinality(TreeKeys)

\* C16: once an iterator has returned as many items as the tree holds, HasNext
\* is false, and a further Next returns a nil item with an error and leaves
\* curr, itemIndex and childIndex as they are, so that HasNext stays false.
C16_PastTheEnd ==
    [][ReturnedAll =>
           /\ ~HasNext(nodes, iter)
           /\ last'.op = "Next" =>
                  /\ ~fault'
                  /\ iter' = [iter EXCEPT !.item = NIL, !.err = TRUE]
                  /\ ~HasNext(nodes', iter')]_vars

\* A Next called past the end of a tree of two levels has returned.
C16_Witness ==
    /\ ~fault /\ ReturnedAll /\ Internal(root)
    /\ last.op = "Next" /\ iter.err

\* C17: on a tree with no items, an iterator of either direction has HasNext
\* false, has returned no item, and a Next on it has returned a nil item with
\* an error.
C17_EmptyTree ==
    iter # NoIter /\ TreeKeys = {} =>
        /\ ~fault
        /\ ~HasNext(nodes, iter)
        /\ iter.out = <<>>
        /\ last.op = "Next" => iter.item = NIL /\ iter.err

\* Next has been called on a reverse iterator of a tree with no items.
C17_Witness ==
    /\ iter.dir = reverse /\ TreeKeys = {}
    /\ last.op = "Next" /\ iter.err

\* Bulkload has been called with the items of args.
Bulkloaded == args.fn = "Bulkload" /\ last # Call("New")

\* C18: the tree that Bulkload returns for an ascending sequence of items
\* has at most `order` children per node, at least ceil(order / 2) per
\* internal node below the root, a root that is a leaf or has 2 children or
\* more, one item less than children on internal nodes, all leaves at one
\* depth, and the keys of every subtree between the separators flanking it.
C18_BulkloadValid ==
    Bulkloaded =>
        /\ ~fault
        /\ \A n \in Nodes :
               /\ Len(nodes[n].children) <= order
               /\ Internal(n) /\ n # root => Len(nodes[n].children) >= (order + 1) \div 2
               /\ Internal(n) => Len(nodes[n].items) = Len(nodes[n].children) - 1
               /\ Ascending(n)
               /\ \A j \in 0..(Len(nodes[n].children) - 1) : Bounded(n, j)
        /\ IsLeaf(root) \/ Len(nodes[root].children) >= 2
        /\ Cardinality(LeafDepths(root, 0)) = 1

\* Bulkload has returned a tree of order 3 or more that is three levels
\* deep.
C18_Witness ==
    /\ Bulkloaded /\ ~fault /\ last = Call("Bulkload")
    /\ order > MinOrder
    /\ LeafDepths(root, 0) = {2}

\* C19: on the tree that Bulkload returns for an ascending sequence of
\* items, Search finds the keys of the sequence and no other key, and a
\* forward iteration returns the sequence: its first items so far, and all
\* of it when HasNext is false.
C19_BulkloadRoundTrip ==
    Bulkloaded =>
        /\ ~fault
        /\ \A k \in 1..BulkMaxKey :
               Search(nodes, root, k) =
                   IF k \in Range(args.items) THEN [ok |-> TRUE, item |-> k]
                   ELSE [ok |-> FALSE, item |-> NIL]
        /\ iter.dir = forward =>
               /\ IsPrefix(iter.out, args.items)
               /\ ~HasNext(nodes, iter) => iter.out = args.items

\* Every key stored in the subtree of n in the nodes ns.
RECURSIVE KeysOf(_, _)
KeysOf(ns, n) ==
    Range(ns[n].items)
        \cup UNION {KeysOf(ns, ns[n].children[i]) : i \in 1..Len(ns[n].children)}

\* Every key stored in the tree t.
KeysIn(t) == KeysOf(t.nodes, t.root)

\* Merge has returned the tree of two trees of the same order.
Merged == merge.pc = "done"

\* C20: the tree that Merge returns for two trees of the same order holds a
\* key if and only if one of the two trees holds it.
C20_MergeUnion ==
    Merged =>
        /\ ~fault
        /\ TreeKeys = KeysIn(args.a) \cup KeysIn(args.b)

\* The item slots of the tree (ns, rt) that hold the key k.
SlotsOf(ns, rt, k) ==
    {s \in UNION {{<<n, i>> : i \in 1..Len(ns[n].items)} : n \in Reachable(ns, rt)} :
         ns[s[1]].items[s[2]] = k}

\* C21: a key that both trees given to Merge hold is stored exactly once in
\* the tree that Merge returns.
C21_MergeEqualOnce ==
    Merged =>
        /\ ~fault
        /\ \A k \in KeysIn(args.a) \cap KeysIn(args.b) :
               Cardinality(SlotsOf(nodes, root, k)) = 1

\* C22: Merge of two trees of different orders returns the error and no
\* tree; Merge of two trees of the same order goes through its loop without
\* a panic and returns a tree and no error; no step of Merge changes a or b.
C22_MergeOrders ==
    [][/\ args' = args
       /\ merge.pc = "none" =>
              IF args.a.order # args.b.order
              THEN merge'.pc = "error" /\ nodes' = nodes /\ root' = root /\ ~fault'
              ELSE merge'.pc = "loop"
       /\ merge.pc = "loop" => merge'.pc \in {"loop", "done"} /\ ~fault'
       /\ merge'.pc = "done" => args.a.order = args.b.order /\ root' \in DOMAIN nodes'
       /\ merge.pc \in {"done", "error"} => merge' = merge]_vars

\* Merge has returned the error for two trees that both hold keys.
C22_Witness ==
    /\ merge.pc = "error" /\ last = Call("Merge")
    /\ args.a.order # args.b.order
    /\ KeysIn(args.a) # {} /\ KeysIn(args.b) # {}

\* The structural conditions of isValidBTree on the tree of order m.
IsValidBTree(m) ==
    /\ \A n \in Nodes :
           /\ Len(nodes[n].children) <= m
           /\ Internal(n) /\ n # root => Len(nodes[n].children) >= (m + 1) \div 2
           /\ Internal(n) => Len(nodes[n].items) = Len(nodes[n].children) - 1
           /\ Ascending(n)
           /\ \A j \in 0..(Len(nodes[n].children) - 1) : Bounded(n, j)
    /\ IsLeaf(root) \/ Len(nodes[root].children) >= 2
    /\ Cardinality(LeafDepths(root, 0)) = 1

\* C23: the tree that Merge returns for two trees of the same order m is a
\* tree of order m that meets the structural conditions.
C23_MergeValid ==
    Merged =>
        /\ ~fault
        /\ order = args.a.order /\ order = args.b.order
        /\ IsValidBTree(order)

\* Merge has returned a tree with an internal root for two trees that
\* share a key and each hold a key the other does not.
C23_Witness ==
    /\ Merged /\ ~fault /\ Internal(root)
    /\ KeysIn(args.a) \cap KeysIn(args.b) # {}
    /\ KeysIn(args.a) \ KeysIn(args.b) # {}
    /\ KeysIn(args.b) \ KeysIn(args.a) # {}

\* C24: the tree that Merge returns for a and b holds the keys that Merge
\* returns for b and a.
C24_MergeCommutes ==
    Merged =>
        /\ ~fault
        /\ ~BTreeMerge(args.b, args.a).fault /\ ~BTreeMerge(args.b, args.a).err
        /\ TreeKeys = KeysIn(BTreeMerge(args.b, args.a).tree)

\* Merge has returned for two trees of which neither holds all the keys of
\* the other.
C24_Witness ==
    /\ Merged /\ ~fault /\ TreeKeys # {}
    /\ KeysIn(args.a) \ KeysIn(args.b) # {}
    /\ KeysIn(args.b) \ KeysIn(args.a) # {}

\* C25: when Insert calls on New(order) have been followed by Delete calls
\* of every key inserted, the root is a leaf with no items.
C25_InsertAllDeleteAll ==
    hist.phase = "delete" /\ hist.live = {} =>
        /\ ~fault
        /\ Len(nodes[root].items) = 0
        /\ Len(nodes[root].children) = 0

\* C26: after the calls that have returned, the keys stored in the tree are
\* the keys inserted and not deleted afterwards, each in one item slot of
\* one node.
C26_KeysAreLive ==
    ~fault =>
        /\ TreeKeys = hist.live
        /\ \A k \in TreeKeys : Cardinality(SlotsOf(nodes, root, k)) = 1

\* C27: in a tree of order 2 on which only Insert has been called, a leaf
\* holds at most 1 item and an internal node holds 1 item and 2 children.
C27_OrderTwoShape ==
    order = MinOrder /\ hist.phase = "insert" =>
        /\ ~fault
        /\ \A n \in Nodes :
               IF IsLeaf(n) THEN Len(nodes[n].items) <= 1
               ELSE Len(nodes[n].items) = 1 /\ Len(nodes[n].children) = 2

\* The largest of a set of keys.
Largest(S) == CHOOSE x \in S : \A y \in S : ~Less(x, y)

\* Delete(k) finds k in an internal node, to the right of a subtree.
FoundInternal(k) ==
    LET r == search(nodes, root, k)
    IN  /\ r.index # -1
        /\ Internal(r.node)
        /\ r.index < Len(nodes[r.node].children)

\* The subtree to the left of the key k that an internal node holds.
LeftOf(k) ==
    LET r == search(nodes, root, k)
    IN  nodes[r.node].children[r.index + 1]

C29_CursorRightmost ==
    bulk.pc = "loop" /\ bulk.i < Len(args.items) =>
        /\ ~fault
        /\ bulk.max = max(nodes, root)

\* C30: the tree that Bulkload returns for an ascending sequence of items
\* has the shape and the items of the tree that Insert of each item in turn
\* makes of New(order).
C30_BulkloadAsInserts ==
    Bulkloaded =>
        /\ ~fault
        /\ ~InsertAll(order, args.items).fault
        /\ nodes = Collect(InsertAll(order, args.items).nodes,
                           InsertAll(order, args.items).root)

\* C31: after each Insert or Delete call that has returned, every node, leaf
\* or internal, holds at most order - 1 items.
C31_AtMostItems ==
    ~fault => \A n \in Nodes : Len(nodes[n].items) <= order - 1

\* C32: in a tree of order 3 or more, after each Insert or Delete call that
\* has returned, every leaf that is not the root holds at least one item.
C32_LeavesNotEmpty ==
    ~fault /\ order >= 3 =>
        \A n \in Nodes : IsLeaf(n) /\ n # root => Len(nodes[n].items) >= 1

\* A tree of order 3 or more, left by a Delete, in which a key is the only
\* item of a leaf below the root, and the Delete of that key returns a tree
\* that still has leaves below the root: the rebalance has refilled or
\* merged the emptied leaf.
C32_Witness ==
    /\ Returned("Delete") /\ last.present /\ order >= 3
    /\ \E k \in TreeKeys :
           LET r == search(nodes, root, k)
               d == BTreeDelete(nodes, root, order, k)
           IN  /\ IsLeaf(r.node) /\ r.node # root
               /\ Len(nodes[r.node].items) = 1
               /\ ~d.fault
               /\ Len(d.nodes[d.root].children) > 0
               /\ \A n \in Reachable(d.nodes, d.root) :
                      Len(d.nodes[n].children) = 0 => Len(d.nodes[n].items) >= 1

\* The siblings of a node n below the root, by its place among the children
\* of its parent (NIL where there is none).
LeftSibling(ns, n) ==
    LET pch == ns[ns[n].parent].children
    IN  IF \E i \in 2..Len(pch) : pch[i] = n
        THEN pch[(CHOOSE i \in 2..Len(pch) : pch[i] = n) - 1]
        ELSE NIL

RightSibling(ns, n) ==
    LET pch == ns[ns[n].parent].children
    IN  IF \E i \in 1..(Len(pch) - 1) : pch[i] = n
        THEN pch[(CHOOSE i \in 1..(Len(pch) - 1) : pch[i] = n) + 1]
        ELSE NIL

\* The separator between the adjacent children left and right of p.
Separator(ns, p, left) ==
    ns[p].items[CHOOSE i \in 1..Len(ns[p].children) : ns[p].children[i] = left]

\* n took one key through the parent from its right sibling s: the
\* separator came down to the end of n, the first item of s went up, and the
\* first child of s, if any, followed to n.
TookFromRight(ns, n, s, ns2) ==
    LET p == ns[n].parent
    IN  /\ ns2[n].items = Append(ns[n].items, Separator(ns, p, n))
        /\ Separator(ns2, p, n) = ns[s].items[1]
        /\ ns2[s].items = Tail(ns[s].items)
        /\ ns2[p].children = ns[p].children
        /\ Len(ns2[p].items) = Len(ns[p].items)
        /\ IF Len(ns[s].children) > 0
           THEN /\ ns2[n].children = Append(ns[n].children, ns[s].children[1])
                /\ ns2[s].children = Tail(ns[s].children)
           ELSE ns2[n].children = ns[n].children /\ ns2[s].children = <<>>

\* n took one key through the parent from its left sibling s.
TookFromLeft(ns, n, s, ns2) ==
    LET p == ns[n].parent
        len == Len(ns[s].items)
    IN  /\ ns2[n].items = <<Separator(ns, p, s)>> \o ns[n].items
        /\ Separator(ns2, p, s) = ns[s].items[len]
        /\ ns2[s].items = Take(ns[s].items, len - 1)
        /\ ns2[p].children = ns[p].children
        /\ Len(ns2[p].items) = Len(ns[p].items)
        /\ IF Len(ns[s].children) > 0
           THEN /\ ns2[n].children = <<ns[s].children[Len(ns[s].children)]>> \o ns[n].children
                /\ ns2[s].children = Take(ns[s].children, Len(ns[s].children) - 1)
           ELSE ns2[n].children = ns[n].children /\ ns2[s].children = <<>>

\* The adjacent children left and right of p were merged into left, with
\* the separator between them; right left the tree.
MergedInto(ns, rt, left, right, ns2, rt2) ==
    LET p == ns[left].parent
    IN  /\ ns2[left].items = ns[left].items \o <<Separator(ns, p, left)>> \o ns[right].items
        /\ ns2[left].children = ns[left].children \o ns[right].children
        /\ left \in Reachable(ns2, rt2)
        /\ right \notin Reachable(ns2, rt2)
        /\ Reachable(ns2, rt2) \subseteq Reachable(ns, rt)

\* One invocation of rebalance on the node reb.n below the root, by what
\* it does to the tree.  With no sibling at all there is nothing to merge
\* with, and the invocation panics (C10).
RebalanceOrder ==
    LET n == reb.n
        l == LeftSibling(nodes, n)
        r == RightSibling(nodes, n)
    IN  IF r # NIL /\ Len(nodes[r].items) > reb.minItems
        THEN /\ ~fault'
             /\ TookFromRight(nodes, n, r, nodes')
             /\ reb'.pc = "done"
             /\ root' = root
             /\ Reachable(nodes', root') = Reachable(nodes, root)
             /\ l # NIL => nodes'[l] = nodes[l]
        ELSE IF l # NIL /\ Len(nodes[l].items) > reb.minItems
        THEN /\ ~fault'
             /\ TookFromLeft(nodes, n, l, nodes')
             /\ reb'.pc = "done"
             /\ root' = root
             /\ Reachable(nodes', root') = Reachable(nodes, root)
             /\ r # NIL => nodes'[r] = nodes[r]
        ELSE IF l # NIL
        THEN ~fault' /\ MergedInto(nodes, root, l, n, nodes', root')
        ELSE IF r # NIL
        THEN ~fault' /\ MergedInto(nodes, root, n, r, nodes', root')
        ELSE fault'

\* C33: an invocation of rebalance on a node n below the root (the leaf
\* that Delete emptied with minItems = 1, or the parent that a merge left
\* short of items) takes one key through the parent from the right sibling
\* if it holds more than minItems items, otherwise from the left sibling if
\* it holds more than minItems items, and otherwise merges n with its left
\* sibling if it has one and with its right sibling if not; after a
\* rotation the Delete is done and the tree has the nodes it had.
C33_RebalanceOrder ==
    [][reb.pc = "rebalance" /\ nodes[reb.n].parent # NIL => RebalanceOrder]_vars

\* A merge below has left the internal node reb.n short of items, its right
\* sibling has none to spare or is not there, its left sibling has, and the
\* invocation of rebalance takes a key and a child from the left sibling.
C33_Witness ==
    /\ ~fault /\ reb.pc = "rebalance"
    /\ nodes[reb.n].parent # NIL
    /\ Len(nodes[reb.n].children) > 0
    /\ LET n == reb.n
           l == LeftSibling(nodes, n)
           r == RightSibling(nodes, n)
           s == RebalanceOnce(nodes, root, order, n, reb.minItems)
       IN  /\ ~(r # NIL /\ Len(nodes[r].items) > reb.minItems)
           /\ l # NIL /\ Len(nodes[l].items) > reb.minItems
           /\ ~s.fault
           /\ TookFromLeft(nodes, n, l, s.nodes)

\* The items of the node of the split in progress, with the item inserted.
SplitItems == insert(nodes[spl.node].items, spl.item)

\* The node to the right of n among the children of p.
NextChild(ns, p, n) ==
    ns[p].children[(CHOOSE i \in 1..Len(ns[p].children) : ns[p].children[i] = n) + 1]

\* One invocation of split on a node that holds `order` items with the item
\* inserted, by what it does to the tree: rightNode is the new sibling.
SplitsInHalf ==
    LET node == spl.node
        its == SplitItems
        chi == nodes[node].children
        parent == nodes[node].parent
        mid == order \div 2
        rightNode == IF parent = NIL
                     THEN nodes'[root'].children[2]
                     ELSE NextChild(nodes', parent, node)
    IN  /\ ~fault'
        /\ rightNode \notin DOMAIN nodes
        /\ nodes'[node].items = Take(its, mid)
        /\ nodes'[rightNode].items = SubFrom(its, mid + 1)
        /\ Len(nodes'[rightNode].items) = order - mid - 1
        /\ IF Len(chi) = 0
           THEN nodes'[node].children = <<>> /\ nodes'[rightNode].children = <<>>
           ELSE /\ nodes'[node].children = Take(chi, mid + 1)
                /\ nodes'[rightNode].children = SubFrom(chi, mid + 1)
                /\ Len(chi) = order + 1
                /\ \A c \in Range(nodes'[rightNode].children) :
                       nodes'[c].parent = rightNode
                /\ \A c \in Range(nodes'[node].children) : nodes'[c].parent = node
        /\ IF parent = NIL
           THEN /\ root' \notin DOMAIN nodes
                /\ nodes'[root'].items = <<its[mid + 1]>>
                /\ nodes'[root'].children = <<node, rightNode>>
                /\ nodes'[node].parent = root' /\ nodes'[rightNode].parent = root'
                /\ spl'.pc = "done"
           ELSE /\ root' = root
                /\ spl' = [pc |-> "split", node |-> parent, item |-> its[mid + 1]]
                /\ nodes'[parent].items = nodes[parent].items
                /\ Len(nodes'[parent].children) = Len(nodes[parent].children) + 1
                /\ nodes'[node].parent = parent /\ nodes'[rightNode].parent = parent
                /\ \A c \in Range(nodes[parent].children) :
                       c \in Range(nodes'[parent].children)

\* C34: a split of a node that holds `order` items leaves the first
\* floor(order/2) of them in the node, hands the item at index floor(order/2)
\* to the parent (as the item of the split of the parent) or puts it into a
\* new root, and gives the order - floor(order/2) - 1 items after it, in
\* order, to a new right sibling, together with the children at the indices
\* above floor(order/2) when the node is internal; every item and child of
\* the node is in one place afterwards.
C34_SplitInHalf ==
    [][spl.pc = "split" /\ Len(SplitItems) = order => SplitsInHalf]_vars

\* The split cascade of an Insert on a tree of order 3 or more has reached
\* an internal node that holds `order` items with the item handed up, and
\* the invocation of split puts the middle item into a new root.
C34_Witness ==
    /\ ~fault /\ spl.pc = "split" /\ order >= 3
    /\ Len(nodes[spl.node].children) > 0
    /\ Len(SplitItems) = order
    /\ LET s == SplitOnce(nodes, root, order, spl.node, spl.item)
       IN  /\ ~s.fault
           /\ s.root # root
           /\ s.nodes[s.root].items = <<SplitItems[(order \div 2) + 1]>>

\* The number of levels of the tree below n, n included.
RECURSIVE Height(_, _)
Height(ns, n) ==
    IF Len(ns[n].children) = 0 THEN 1 ELSE 1 + Height(ns, ns[n].children[1])

\* C35: the steps of an Insert call never lower the tree and raise it by one
\* level at most: the descent and the return leave its height alone, and an
\* invocation of split raises it by one, and ends the cascade, exactly when
\* its node is the root and holds `order` items with the item inserted.
C35_HeightByInsert ==
    [][IF spl.pc = "split"
       THEN IF nodes[spl.node].parent = NIL /\ Len(SplitItems) = order
            THEN /\ Height(nodes', root') = Height(nodes, root) + 1
                 /\ spl'.pc = "done"
            ELSE Height(nodes', root') = Height(nodes, root)
       ELSE spl'.pc # "none" \/ spl.pc = "done" =>
                Height(nodes', root') = Height(nodes, root)]_vars

\* C36: the items that the loop of Merge has collected, and hands to
\* Bulkload at its end, are strictly ascending, so that no item is there
\* twice.
C36_MergedAscending ==
    merge.pc \in {"loop", "done"} =>
        /\ \A i \in 1..(Len(merge.merged) - 1) :
               Less(merge.merged[i], merge.merged[i + 1])
        /\ \A i, j \in 1..Len(merge.merged) :
               merge.merged[i] = merge.merged[j] => i = j

\* Merge has returned the tree of items taken from both of two trees of the
\* same order that share a key.
C36_Witness ==
    /\ Merged
    /\ KeysIn(args.a) \cap KeysIn(args.b) # {}
    /\ Range(merge.merged) \cap (KeysIn(args.a) \ KeysIn(args.b)) # {}
    /\ Range(merge.merged) \cap (KeysIn(args.b) \ KeysIn(args.a)) # {}
    /\ Len(merge.merged) >= 3

MergeToDo(st) ==
    (Cardinality(KeysIn(args.a)) - Len(st.aIter.out))
        + (Cardinality(KeysIn(args.b)) - Len(st.bIter.out))
        + (IF st.oldA # NIL THEN 1 ELSE 0)
        + (IF st.oldB # NIL THEN 1 ELSE 0)

\* An iteration of the loop of Merge pulls an item from an iterator or
\* appends a pending item, and leaves less to do.
MergeIterates ==
    /\ ~fault'
    /\ \/ Len(merge'.aIter.out) > Len(merge.aIter.out)
       \/ Len(merge'.bIter.out) > Len(merge.bIter.out)
       \/ merge.oldA # NIL /\ merge'.merged = Append(merge.merged, merge.oldA)
       \/ merge.oldB # NIL /\ merge'.merged = Append(merge.merged, merge.oldB)
    /\ MergeToDo(merge') < MergeToDo(merge)
    /\ MergeToDo(merge') >= 0

\* C38: every iteration of the loop of Merge pulls an item from an iterator
\* or appends a pending item; what is left to do, |A| + |B| items when the
\* loop starts, gets less by one at least and never less than nothing, so
\* that the loop runs |A| + |B| times at most; and for trees of the same
\* order the loop comes to its break, where neither iterator has a next
\* item.
C38_MergeTerminates ==
    /\ [][/\ merge.pc = "none" /\ merge'.pc = "loop" =>
                 MergeToDo(merge') = Cardinality(KeysIn(args.a)) + Cardinality(KeysIn(args.b))
          /\ merge.pc = "loop" /\ merge'.pc = "loop" => MergeIterates]_vars
    /\ <>(/\ merge.pc = "loop"
          /\ ~HasNext(args.a.nodes, merge.aIter)
          /\ ~HasNext(args.b.nodes, merge.bIter))

\* The loop of Merge has run through two trees of the same order that share
\* a key, pulling from both iterators, and has reached its break.
C38_Witness ==
    /\ Merged /\ ~fault
    /\ KeysIn(args.a) \cap KeysIn(args.b) # {}
    /\ Len(merge.aIter.out) >= 2
    /\ Len(merge.bIter.out) >= 2
    /\ ~MergeMore(args.a, args.b, merge)

\* The ordering invariant: the items of every node ascend and the keys of
\* every subtree lie between the separators that flank it.
OrderingHolds ==
    \A n \in Nodes :
        /\ Ascending(n)
        /\ \A j \in 0..(Len(nodes[n].children) - 1) : Bounded(n, j)

\* C39: in a tree that satisfies the ordering invariant, between calls or
\* in the middle of a Delete, nthChildOfParent(n) of every node n below the
\* root is the index i with n.parent.children[i] = n, whether n has items
\* (binary search) or none (linear scan), and for a node with items the
\* binary search gives the index that the linear scan gives.
C39_NthChildOfParent ==
    ~fault /\ OrderingHolds =>
        \A n \in Nodes \ {root} :
            LET p == nodes[n].parent
                i == nthChildOfParent(nodes, n)
            IN  /\ 0 <= i /\ i < Len(nodes[p].children)
                /\ nodes[p].children[i + 1] = n
                /\ Len(nodes[n].items) > 0 =>
                       find(nodes[p].items, nodes[n].items[1]) = indexOf(nodes[p].children, n)

\* A Delete on a tree of order 3 or more is about to rebalance around an
\* emptied leaf that is not the first child of its parent, in a tree that
\* satisfies the ordering invariant and has a leaf with items that is not a
\* first child either: the linear scan and the binary search both give an
\* index above 0.
C39_Witness ==
    /\ ~fault /\ OrderingHolds /\ order >= 3
    /\ reb.pc = "rebalance"
    /\ Len(nodes[reb.n].items) = 0
    /\ nthChildOfParent(nodes, reb.n) > 0
    /\ \E n \in Nodes \ {root} :
           /\ Len(nodes[n].items) > 0
           /\ nthChildOfParent(nodes, n) > 0
           /\ nodes[nodes[n].parent].children[nthChildOfParent(nodes, n) + 1] = n

====
